---- MODULE Spec2Model ----
(***************************************************************************)
(* The worker pool of apps/api/src/workers/pool.ts (class WorkerPool) as a *)
(* state machine.  One control thread owns the pool: every handler below   *)
(* (execute, a worker's message / error / exit event, a timeout timer, the *)
(* idle sweep, the steps of shutdown) runs to completion before the next   *)
(* event is taken, so each is one atomic action.  The execution units run  *)
(* in parallel and are modelled by what they can send to the pool.         *)
(***************************************************************************)
EXTENDS Integers, Sequences, FiniteSets, TLC

\* ---------------------------------------------------------------- bounds
MaxTasks == 3        \* execute() calls in one run
MaxCtorCpus == 6     \* cpus().length of a followed constructor call: 1..MaxCtorCpus
MaxCtorWorkers == 6  \* options.maxWorkers of a followed constructor call: absent or 1..MaxCtorWorkers
MaxCpus == 2         \* cpus().length ranges over 1..MaxCpus
MaxOptWorkers == 2   \* options.maxWorkers / options.minWorkers range over 0..MaxOptWorkers
MaxWorkerIds == 3    \* worker ids that can be referenced at the same time
MaxFairTasks == 2    \* execute() calls in one run of FairSpec
MaxMessages == 2     \* task messages one worker script receives in one run of SpecWorker

TaskIds == 1..MaxTasks
WorkerIds == 1..MaxWorkerIds

\* task.priority: <<>> is undefined (options.priority not given), <<v>> is v.
NoPriority == <<>>
PriorityValues == {-1, 5}
Priorities == {NoPriority} \cup {<<v>> : v \in PriorityValues}

\* --------------------------------------------------- what a future can get
Resolved == "resolved"                        \* the data a handler returned
TaskFailed == "handler error"                 \* the message of the Error a handler threw
DefaultTaskFailed == "Task failed"            \* new Error(result.error || "Task failed")
Undefined == ""                               \* an absent field; falsy like ""

\* message.type: two cases of the switch and a type no case names; message.data:
\* input the handler accepts or input it throws on.
KnownTypes == {"hash", "info"}
TaskTypes == KnownTypes \cup {"nosuch"}
InvalidData == "invalid"
TaskData == {"valid", InvalidData}
TaskTimeout == "Task timeout"
WorkerCrash == "worker error event"           \* the Error of the worker's "error" event
PoolShutdown == "Worker pool shutdown"
PoolIsShuttingDown == "Worker pool is shutting down"
PoolShuttingDown == {PoolShutdown, PoolIsShuttingDown}

VARIABLES
  maxWorkers,      \* this.maxWorkers
  minWorkers,      \* this.minWorkers
  workers,         \* this.workers: the live worker ids, in Map insertion order
  info,            \* the WorkerInfo object of each worker id (also of a removed
                   \* worker, which a timer closure may still hold)
  taskQueue,       \* this.taskQueue: task ids
  priority,        \* task.priority of each task
  isShuttingDown,  \* this.isShuttingDown
  timers,          \* pending setTimeout closures of processQueue: <<task, worker>>
  unit,            \* each worker's execution unit: its status and the task
                   \* messages posted to it that it has not answered
  outcome,         \* per execute() call, the resolve/reject calls on its future
  nextTaskId,      \* execute() calls made so far
  shutdownPc,      \* where the shutdown() call is
  dispatched,      \* <<task, worker>> pairs posted by the last step, in order
  port,            \* one worker script seen from inside: the messages its
                   \* parentPort received, how many its listener has taken, the
                   \* handleTask calls in progress, the results posted per message
  ctor,            \* a `new WorkerPool(options)` call followed from its start:
                   \* its options, cpus().length and whether it has run
  stale            \* the timers still to fire whose task has settled and whose
                   \* worker is live on another task or idle (setTimeout is never
                   \* cleared), where a specification follows them

poolVars == <<maxWorkers, minWorkers, workers, info, taskQueue, priority,
              isShuttingDown, timers, unit, outcome, nextTaskId, shutdownPc, dispatched,
              stale>>

vars == <<maxWorkers, minWorkers, workers, info, taskQueue, priority,
          isShuttingDown, timers, unit, outcome, nextTaskId, shutdownPc, dispatched,
          port, ctor, stale>>

\* ---------------------------------------------------------------- helpers
Max(a, b) == IF a >= b THEN a ELSE b

Range(s) == {s[i] : i \in 1..Len(s)}

SetMin(S) == CHOOSE x \in S : \A y \in S : x <= y

\* `x || d` for a number or undefined x: undefined (modelled 0) and 0 are falsy.
JsOr(x, d) == IF x = 0 THEN d ELSE x

\* `task.priority || 0`
PriorityOrZero(pr) == IF pr = <<>> THEN 0 ELSE JsOr(pr[1], 0)

RECURSIVE Remove(_, _)
Remove(s, x) ==
  IF s = <<>> THEN <<>>
  ELSE IF Head(s) = x THEN Tail(s) ELSE <<Head(s)>> \o Remove(Tail(s), x)

\* The value of a call whose arguments are evaluated once, before the body
\* runs: Result({body(x) : x \in {argument}}).
Result(S) == CHOOSE r \in S : TRUE

NewInfo == [busy |-> FALSE, currentTask |-> 0, errors |-> 0]
NoUnit == [status |-> "none", inbox |-> [t \in TaskIds |-> 0]]
NewUnit == [status |-> "running", inbox |-> [t \in TaskIds |-> 0]]

\* ----------------------------------------------------------- constructor
CtorMaxWorkers(options, cpus) == JsOr(options.maxWorkers, cpus)
CtorMinWorkers(options, cpus) == JsOr(options.minWorkers, Max(1, cpus \div 2))

ImagePoolOptions(cpus) == [maxWorkers |-> Max(2, cpus \div 2), minWorkers |-> 1]
PdfPoolOptions(cpus) == [maxWorkers |-> Max(2, cpus \div 2), minWorkers |-> 1]
GeneralPoolOptions(cpus) == [maxWorkers |-> cpus, minWorkers |-> 2]
QRCodePoolOptions(cpus) == [maxWorkers |-> Max(2, cpus \div 2), minWorkers |-> 1]
VideoPoolOptions(cpus) == [maxWorkers |-> Max(2, cpus \div 4), minWorkers |-> 1]

RegistryOptions(cpus) ==
  {ImagePoolOptions(cpus), PdfPoolOptions(cpus), GeneralPoolOptions(cpus),
   QRCodePoolOptions(cpus), VideoPoolOptions(cpus)}

\* Options a caller can pass: each of maxWorkers, minWorkers absent (0) or given.
CallerOptions == [maxWorkers : 0..MaxOptWorkers, minWorkers : 0..MaxOptWorkers]

\* Settled timers are not followed: a timer is dropped once it can do nothing.
NoStale == {<<0, 0>>}

\* No constructor call is followed: the pool is taken as already built.
NoCtor == [options |-> [maxWorkers |-> 0, minWorkers |-> 0], cpus |-> 0, pc |-> "none"]

\* A worker script that has received nothing.
NoPort ==
  [received |-> <<>>, taken |-> 0, running |-> {},
   posted |-> [n \in 1..MaxMessages |-> <<>>]]

\* ------------------------------------------------- the pool as one record
Cur ==
  [workers |-> workers, info |-> info, taskQueue |-> taskQueue,
   priority |-> priority, timers |-> timers, unit |-> unit,
   outcome |-> outcome, dispatched |-> <<>>, ok |-> TRUE, stale |-> stale]

Live(p) == Range(p.workers)

\* A timer closure whose test `worker.currentTask === task.id` fails now and at
\* any later time, or whose firing could only reset the WorkerInfo of a removed
\* worker: the task has left the queue for good, or the worker has left the map,
\* and the two no longer point at each other.
DeadTimer(p, tm) ==
  LET t == tm[1]
      w == tm[2]
  IN \/ /\ t \notin Range(p.taskQueue)
        /\ (p.info[w].currentTask # t \/ w \notin Live(p))
     \/ /\ w \notin Live(p)
        /\ p.info[w].currentTask # t

\* Worker ids something still refers to: a live worker, an execution unit whose
\* exit event is still to come, a timer closure holding the WorkerInfo.
InUse(p) ==
  {w \in WorkerIds : \/ w \in Live(p)
                     \/ p.unit[w].status # "none"
                     \/ \E tm \in p.timers \cup p.stale : tm[2] = w}

\* A timer that is still to fire although its task has left the queue for good,
\* on a worker of the map that does not hold that task: its test
\* `worker.currentTask === task.id` fails whenever it fires.
StaleTimer(p, tm) ==
  /\ tm[1] \notin Range(p.taskQueue)
  /\ tm[2] \in Live(p)
  /\ p.info[tm[2]].currentTask # tm[1]

\* Garbage: timers that can do nothing any more, then every WorkerInfo nothing
\* refers to, the errors count of a WorkerInfo that left the map (only timer
\* closures still hold it, and they read currentTask alone), and the task
\* object (its priority) of a task that left the queue.
Collect(p) ==
  Result({[p1 EXCEPT
             !.info = [w \in WorkerIds |->
                         IF w \in Live(p1) THEN p1.info[w]
                         ELSE IF w \in InUse(p1) THEN [p1.info[w] EXCEPT !.errors = 0]
                         ELSE NewInfo],
             !.priority = [t \in TaskIds |-> IF t \in Range(p1.taskQueue)
                                            THEN p1.priority[t] ELSE <<>>]] :
          p1 \in {[p EXCEPT !.timers = {tm \in @ : ~DeadTimer(p, tm)},
                            !.stale = IF @ = NoStale THEN @
                                      ELSE {tm \in @ \cup p.timers : StaleTimer(p, tm)}]}})

\* spawnWorker(): ids are unique in the code (Date.now() + Math.random()); the
\* model takes the least id nothing refers to, and cannot go on when none is left.
spawnWorker(p) ==
  LET free == WorkerIds \ InUse(p) IN
  IF free = {} THEN [p EXCEPT !.ok = FALSE]
  ELSE LET workerId == SetMin(free) IN
       [p EXCEPT !.workers = Append(@, workerId),
                 !.info[workerId] = NewInfo,
                 !.unit[workerId] = NewUnit]

RECURSIVE SpawnTimes(_, _)
SpawnTimes(p, n) ==
  IF n <= 0 THEN p ELSE Result({SpawnTimes(p1, n - 1) : p1 \in {spawnWorker(p)}})

\* getAvailableWorker(): the first worker of the map that is not busy, 0 for null.
getAvailableWorker(p) ==
  LET idle == {i \in 1..Len(p.workers) : ~p.info[p.workers[i]].busy} IN
  IF idle = {} THEN 0 ELSE p.workers[SetMin(idle)]

\* Array.prototype.sort with (a, b) => (b.priority || 0) - (a.priority || 0):
\* a stable sort, higher priority first.
\* Mutant: the comparator's ties go the other way (an unstable sort).
RECURSIVE InsertByPriority_TiesReversed(_, _, _)
InsertByPriority_TiesReversed(s, x, pr) ==
  IF s = <<>> THEN <<x>>
  ELSE IF PriorityOrZero(pr[Head(s)]) > PriorityOrZero(pr[x])
       THEN <<Head(s)>> \o InsertByPriority_TiesReversed(Tail(s), x, pr)
       ELSE <<x>> \o s

RECURSIVE InsertByPriority(_, _, _)
InsertByPriority(s, x, pr) ==
  IF s = <<>> THEN <<x>>
  ELSE IF PriorityOrZero(pr[Head(s)]) >= PriorityOrZero(pr[x])
       THEN <<Head(s)>> \o InsertByPriority(Tail(s), x, pr)
       ELSE <<x>> \o s

\* Mutant: processQueue without the sort.
SortByPriority_NoSort(s, pr) == s

RECURSIVE SortByPriority(_, _)
SortByPriority(s, pr) ==
  IF s = <<>> THEN <<>>
  ELSE InsertByPriority(SortByPriority(SubSeq(s, 1, Len(s) - 1), pr), s[Len(s)], pr)

\* Mutant: processQueue without the filter: every queued task is pending.
PendingTasks_NoFilter(p, s) == s

\* The filter of processQueue: tasks no live worker has as currentTask.
RECURSIVE PendingTasks(_, _)
PendingTasks(p, s) ==
  IF s = <<>> THEN <<>>
  ELSE IF \E w \in Live(p) : p.info[w].currentTask = Head(s)
       THEN PendingTasks(p, Tail(s))
       ELSE <<Head(s)>> \o PendingTasks(p, Tail(s))

\* Lines 210-235: mark the worker busy, post the task, start its timeout timer.
Assign(p, worker, task) ==
  [p EXCEPT !.info[worker].busy = TRUE,
            !.info[worker].currentTask = task,
            !.unit[worker].inbox[task] = @ + 1,
            !.timers = @ \cup {<<task, worker>>},
            !.dispatched = Append(@, <<task, worker>>)]

\* Mutant: the loop spawns a worker whenever none is idle, whatever maxWorkers.
RECURSIVE DispatchLoop_NoMaxTest(_, _)
DispatchLoop_NoMaxTest(p, tasks) ==
  IF tasks = <<>> THEN p
  ELSE LET found == getAvailableWorker(p)
           grow == found = 0
       IN Result({LET worker == IF grow THEN getAvailableWorker(p1) ELSE found
                  IN IF worker # 0 /\ p1.ok
                     THEN Result({DispatchLoop_NoMaxTest(p2, rest) :
                                    p2 \in {Assign(p1, worker, Head(tasks))},
                                    rest \in {Tail(tasks)}})
                     ELSE p1 :
                  p1 \in {IF grow THEN spawnWorker(p) ELSE p}})

\* The for loop of processQueue over pendingTasks.
RECURSIVE DispatchLoop(_, _)
DispatchLoop(p, tasks) ==
  IF tasks = <<>> THEN p
  ELSE LET found == getAvailableWorker(p)
           grow == found = 0 /\ Len(p.workers) < maxWorkers
       IN Result({LET worker == IF grow THEN getAvailableWorker(p1) ELSE found
                  IN IF worker # 0 /\ p1.ok
                     THEN Result({DispatchLoop(p2, rest) :
                                    p2 \in {Assign(p1, worker, Head(tasks))},
                                    rest \in {Tail(tasks)}})
                     ELSE p1 :
                  p1 \in {IF grow THEN spawnWorker(p) ELSE p}})

processQueue(p) ==
  Result({IF Len(q.taskQueue) = 0 THEN q
          ELSE IF isShuttingDown THEN q
          ELSE Result({Result({DispatchLoop(sorted, pendingTasks) :
                                 pendingTasks \in {PendingTasks(sorted, sorted.taskQueue)}}) :
                       sorted \in {[q EXCEPT !.taskQueue =
                                               SortByPriority(q.taskQueue, q.priority)]}}) :
          q \in {p}})

\* A handler's result becomes the next state.
Commit(p) ==
  \E p0 \in {p} : \E q \in {Collect(p0)} :
    /\ q.ok
    /\ workers' = q.workers
    /\ info' = q.info
    /\ taskQueue' = q.taskQueue
    /\ priority' = q.priority
    /\ timers' = q.timers
    /\ unit' = q.unit
    /\ outcome' = q.outcome
    /\ dispatched' = q.dispatched
    /\ stale' = q.stale
    /\ UNCHANGED <<port, ctor>>

\* ------------------------------------------------------------------ Init
InitPool ==
  \E cpus \in 1..MaxCpus : \E options \in CallerOptions \cup RegistryOptions(cpus) :
    /\ maxWorkers = CtorMaxWorkers(options, cpus)
    /\ minWorkers = CtorMinWorkers(options, cpus)
    /\ LET p == SpawnTimes([workers |-> <<>>,
                            info |-> [w \in WorkerIds |-> NewInfo],
                            unit |-> [w \in WorkerIds |-> NoUnit],
                            timers |-> {}, ok |-> TRUE, stale |-> {}],
                           CtorMinWorkers(options, cpus))
       IN /\ p.ok
          /\ workers = p.workers
          /\ info = p.info
          /\ unit = p.unit
    /\ taskQueue = <<>>
    /\ priority = [t \in TaskIds |-> <<>>]
    /\ isShuttingDown = FALSE
    /\ timers = {}
    /\ outcome = [t \in TaskIds |-> <<>>]
    /\ nextTaskId = 0
    /\ shutdownPc = "idle"
    /\ dispatched = <<>>
    /\ port = NoPort
    /\ ctor = NoCtor

Init == InitPool /\ stale = NoStale

\* --------------------------------------------------------------- execute
\* Mutant: execute() without the isShuttingDown test.
Execute_NoShutdownTest(prio) ==
  /\ nextTaskId < MaxTasks
  /\ nextTaskId' = nextTaskId + 1
  /\ Commit(processQueue([Cur EXCEPT !.taskQueue = Append(@, nextTaskId + 1),
                                     !.priority[nextTaskId + 1] = prio]))
  /\ UNCHANGED <<maxWorkers, minWorkers, isShuttingDown, shutdownPc>>

Execute(prio) ==
  /\ nextTaskId < MaxTasks
  /\ nextTaskId' = nextTaskId + 1
  /\ LET id == nextTaskId + 1 IN
     IF isShuttingDown
     THEN Commit([Cur EXCEPT !.outcome[id] = Append(@, PoolIsShuttingDown)])
     ELSE Commit(processQueue([Cur EXCEPT !.taskQueue = Append(@, id),
                                          !.priority[id] = prio]))
  /\ UNCHANGED <<maxWorkers, minWorkers, isShuttingDown, shutdownPc>>

\* ------------------------------------------------------ the worker script
\* handleTask of general.worker.ts and pdf.worker.ts: the switch over
\* message.type inside try/catch.  A handler either returns or throws on the
\* data it is given.
HandlerThrows(type, data) == data = InvalidData

UnknownTaskType(type) == "Unknown task type: " \o type

\* Mutant: a switch without the default case; an unknown type falls through
\* with result undefined.
handleTask_NoDefault(message) ==
  IF message.type \in KnownTypes /\ HandlerThrows(message.type, message.data)
  THEN [taskId |-> message.taskId, success |-> FALSE,
        data |-> Undefined, error |-> TaskFailed]
  ELSE [taskId |-> message.taskId, success |-> TRUE,
        data |-> IF message.type \in KnownTypes THEN Resolved ELSE Undefined,
        error |-> Undefined]

handleTask(message) ==
  IF message.type \in KnownTypes
  THEN IF HandlerThrows(message.type, message.data)
       THEN [taskId |-> message.taskId, success |-> FALSE,
             data |-> Undefined, error |-> TaskFailed]
       ELSE [taskId |-> message.taskId, success |-> TRUE,
             data |-> Resolved, error |-> Undefined]
  ELSE [taskId |-> message.taskId, success |-> FALSE,
        data |-> Undefined, error |-> UnknownTaskType(message.type)]

\* The {taskId, type, data} messages the pool can post for task t, and what a
\* unit answers to them.
TaskMessages(t) == [taskId : {t}, type : TaskTypes, data : TaskData]
TaskResults(t) == {handleTask(message) : message \in TaskMessages(t)}

\* The script's side of the port (general.worker.ts 426-429, pdf.worker.ts
\* 331-334).  The pool posts a task message to the script.
PostToWorker(message) ==
  /\ Len(port.received) < MaxMessages
  /\ port' = [port EXCEPT !.received = Append(@, message)]
  /\ UNCHANGED <<poolVars, ctor>>

\* The "message" event: the listener takes the next message and calls handleTask.
OnMessage ==
  /\ port.taken < Len(port.received)
  /\ port' = [port EXCEPT !.taken = @ + 1, !.running = @ \cup {port.taken + 1}]
  /\ UNCHANGED <<poolVars, ctor>>

\* `await handleTask(message)` is over for the n-th message: postMessage(result).
PostResult(n) ==
  /\ n \in port.running
  /\ port' = [port EXCEPT !.running = @ \ {n},
                          !.posted[n] = Append(@, handleTask(port.received[n]))]
  /\ UNCHANGED <<poolVars, ctor>>

\* ------------------------------------------------- worker "message" event
\* `result.error || "Task failed"`
ErrorOrDefault(error) == IF error = Undefined THEN DefaultTaskFailed ELSE error

\* task.resolve(result.data) or task.reject(new Error(result.error || "Task failed"))
Settlement(result) ==
  IF result.success THEN result.data ELSE ErrorOrDefault(result.error)

\* Mutant: settles the future named by the message without looking it up in the queue.
handleWorkerMessage_NoLookup(p, workerId, result) ==
  IF workerId \notin Live(p) THEN p
  ELSE processQueue(
         [p EXCEPT !.info[workerId].busy = FALSE,
                   !.info[workerId].currentTask = 0,
                   !.taskQueue = Remove(@, result.taskId),
                   !.outcome[result.taskId] = Append(@, Settlement(result))])

handleWorkerMessage(p, workerId, result) ==
  IF workerId \notin Live(p) THEN p
  ELSE LET p1 == [p EXCEPT !.info[workerId].busy = FALSE,
                           !.info[workerId].currentTask = 0] IN
       IF result.taskId \notin Range(p1.taskQueue) THEN p1
       ELSE processQueue(
              [p1 EXCEPT !.taskQueue = Remove(@, result.taskId),
                         !.outcome[result.taskId] = Append(@, Settlement(result))])

\* The unit posts the result of one of the task messages posted to it.
WorkerMessage(w, result) ==
  /\ unit[w].status = "running"
  /\ unit[w].inbox[result.taskId] > 0
  /\ Commit(handleWorkerMessage([Cur EXCEPT !.unit[w].inbox[result.taskId] = @ - 1],
                                w, result))
  /\ UNCHANGED <<maxWorkers, minWorkers, isShuttingDown, nextTaskId, shutdownPc>>

\* --------------------------------------------------- worker "error" event
\* worker.terminate(): the unit stops; its "exit" event is still to come.
Terminate(p, workerId) ==
  [p EXCEPT !.unit[workerId] = [NoUnit EXCEPT !.status = "terminated"]]

\* Mutant: removes the failed worker and spawns no replacement.
handleWorkerError_NoRespawn(p, workerId) ==
  IF workerId \notin Live(p) THEN p
  ELSE LET cur == p.info[workerId].currentTask
           p1 == IF cur # 0 /\ cur \in Range(p.taskQueue)
                 THEN [p EXCEPT !.taskQueue = Remove(@, cur),
                                !.outcome[cur] = Append(@, WorkerCrash)]
                 ELSE p
       IN processQueue([Terminate(p1, workerId) EXCEPT !.workers = Remove(@, workerId)])

\* Mutant: the handler also resets the WorkerInfo of every other worker.
handleWorkerError_ResetsAll(p, workerId) ==
  IF workerId \notin Live(p) THEN p
  ELSE LET cur == p.info[workerId].currentTask
           p1 == IF cur # 0 /\ cur \in Range(p.taskQueue)
                 THEN [p EXCEPT !.taskQueue = Remove(@, cur),
                                !.outcome[cur] = Append(@, WorkerCrash)]
                 ELSE p
           p2 == [Terminate(p1, workerId) EXCEPT !.workers = Remove(@, workerId),
                                                 !.info = [w \in WorkerIds |-> NewInfo]]
           p3 == IF ~isShuttingDown /\ Len(p2.workers) < minWorkers
                 THEN spawnWorker(p2) ELSE p2
       IN processQueue(p3)

handleWorkerError(p, workerId) ==
  IF workerId \notin Live(p) THEN p
  ELSE LET cur == p.info[workerId].currentTask
           p1 == IF cur # 0 /\ cur \in Range(p.taskQueue)
                 THEN [p EXCEPT !.taskQueue = Remove(@, cur),
                                !.outcome[cur] = Append(@, WorkerCrash)]
                 ELSE p
           p2 == [Terminate(p1, workerId) EXCEPT !.workers = Remove(@, workerId)]
           p3 == IF ~isShuttingDown /\ Len(p2.workers) < minWorkers
                 THEN spawnWorker(p2) ELSE p2
       IN processQueue(p3)

\* A running unit raises an uncaught error: the "error" listener counts it on
\* the WorkerInfo it closes over and calls handleWorkerError.
WorkerError(w) ==
  /\ unit[w].status = "running"
  /\ Commit(handleWorkerError([Cur EXCEPT !.info[w].errors = @ + 1], w))
  /\ UNCHANGED <<maxWorkers, minWorkers, isShuttingDown, nextTaskId, shutdownPc>>

\* ---------------------------------------------------- worker "exit" event
\* Mutant: the exit handler respawns without testing isShuttingDown.
onWorkerExit_RespawnAlways(p, workerId) ==
  LET p1 == [p EXCEPT !.workers = Remove(@, workerId)]
      p2 == IF Len(p1.workers) < minWorkers THEN spawnWorker(p1) ELSE p1
  IN [p2 EXCEPT !.unit[workerId] = NoUnit]

onWorkerExit(p, workerId) ==
  LET p1 == [p EXCEPT !.workers = Remove(@, workerId)]
      p2 == IF ~isShuttingDown /\ Len(p1.workers) < minWorkers
            THEN spawnWorker(p1) ELSE p1
  IN [p2 EXCEPT !.unit[workerId] = NoUnit]

\* A unit exits: after terminate(), or on its own while running.
WorkerExit(w) ==
  /\ unit[w].status \in {"running", "terminated"}
  /\ Commit(onWorkerExit(Cur, w))
  /\ UNCHANGED <<maxWorkers, minWorkers, isShuttingDown, nextTaskId, shutdownPc>>

\* --------------------------------------------------------- timeout timer
\* Mutant: the callback without the test worker.currentTask === task.id.
onTaskTimer_NoCurrentTest(p, taskId, worker) ==
  LET p1 == IF taskId \in Range(p.taskQueue)
            THEN [p EXCEPT !.taskQueue = Remove(@, taskId),
                           !.outcome[taskId] = Append(@, TaskTimeout)]
            ELSE p
  IN [p1 EXCEPT !.info[worker].busy = FALSE, !.info[worker].currentTask = 0]

\* Mutant: the callback rejects the task and leaves it in the queue.
onTaskTimer_KeepsQueued(p, taskId, worker) ==
  IF p.info[worker].currentTask = taskId
  THEN LET p1 == IF taskId \in Range(p.taskQueue)
                 THEN [p EXCEPT !.outcome[taskId] = Append(@, TaskTimeout)]
                 ELSE p
       IN [p1 EXCEPT !.info[worker].busy = FALSE, !.info[worker].currentTask = 0]
  ELSE p

onTaskTimer(p, taskId, worker) ==
  IF p.info[worker].currentTask = taskId
  THEN LET p1 == IF taskId \in Range(p.taskQueue)
                 THEN [p EXCEPT !.taskQueue = Remove(@, taskId),
                                !.outcome[taskId] = Append(@, TaskTimeout)]
                 ELSE p
       IN [p1 EXCEPT !.info[worker].busy = FALSE, !.info[worker].currentTask = 0]
  ELSE p

TimerFires(t, w) ==
  /\ <<t, w>> \in timers
  /\ Commit(onTaskTimer([Cur EXCEPT !.timers = @ \ {<<t, w>>}], t, w))
  /\ UNCHANGED <<maxWorkers, minWorkers, isShuttingDown, nextTaskId, shutdownPc>>

\* A timer fires after its task has settled and its worker has moved on.
StaleTimerFires(t, w) ==
  /\ stale # NoStale
  /\ <<t, w>> \in stale
  /\ Commit(onTaskTimer([Cur EXCEPT !.stale = @ \ {<<t, w>>}], t, w))
  /\ UNCHANGED <<maxWorkers, minWorkers, isShuttingDown, nextTaskId, shutdownPc>>

\* ------------------------------------------------------------ idle sweep
\* The loop of cleanupIdleWorkers over the map's entries; `expired` are the
\* workers with now - lastActivity > idleTimeout.
\* Mutant: the sweep without the test workers.size > minWorkers.
RECURSIVE SweepLoop_NoMinTest(_, _, _)
SweepLoop_NoMinTest(p, ids, expired) ==
  IF ids = <<>> THEN p
  ELSE LET workerId == Head(ids) IN
       IF /\ ~p.info[workerId].busy
          /\ workerId \in expired
       THEN Result({SweepLoop_NoMinTest(p1, rest, expired) :
                      p1 \in {[Terminate(p, workerId) EXCEPT !.workers = Remove(@, workerId)]},
                      rest \in {Tail(ids)}})
       ELSE SweepLoop_NoMinTest(p, Tail(ids), expired)

RECURSIVE SweepLoop(_, _, _)
SweepLoop(p, ids, expired) ==
  IF ids = <<>> THEN p
  ELSE LET workerId == Head(ids) IN
       IF /\ ~p.info[workerId].busy
          /\ Len(p.workers) > minWorkers
          /\ workerId \in expired
       THEN Result({SweepLoop(p1, rest, expired) :
                      p1 \in {[Terminate(p, workerId) EXCEPT !.workers = Remove(@, workerId)]},
                      rest \in {Tail(ids)}})
       ELSE SweepLoop(p, Tail(ids), expired)

cleanupIdleWorkers(p, expired) == SweepLoop(p, p.workers, expired)

\* The setInterval of the constructor fires (it is never cleared).
IdleSweep(expired) ==
  /\ expired # {}
  /\ Commit(cleanupIdleWorkers(Cur, expired))
  /\ UNCHANGED <<maxWorkers, minWorkers, isShuttingDown, nextTaskId, shutdownPc>>

\* -------------------------------------------------------------- shutdown
\* Mutant: the queue is emptied without rejecting what was in it.
RejectAll_Nothing(oc, tasks) == oc

RECURSIVE RejectAll(_, _)
RejectAll(oc, tasks) ==
  IF tasks = <<>> THEN oc
  ELSE RejectAll([oc EXCEPT ![Head(tasks)] = Append(@, PoolShutdown)], Tail(tasks))

RECURSIVE TerminateAll(_, _)
TerminateAll(p, ids) ==
  IF ids = <<>> THEN p ELSE TerminateAll(Terminate(p, Head(ids)), Tail(ids))

\* Mutant: only the tasks no worker has as currentTask are rejected.
shutdownDrain_WaitingOnly(p) ==
  TerminateAll([p EXCEPT !.outcome = RejectAll(@, PendingTasks(p, p.taskQueue)),
                         !.taskQueue = <<>>],
               p.workers)

\* Lines 305-315: reject what is left in the queue, terminate every worker.
shutdownDrain(p) ==
  TerminateAll([p EXCEPT !.outcome = RejectAll(@, p.taskQueue), !.taskQueue = <<>>],
               p.workers)

\* shutdown(timeout) up to its first await; `elapsed` is Date.now() >= deadline.
ShutdownCall(elapsed) ==
  /\ shutdownPc = "idle"
  /\ isShuttingDown' = TRUE
  /\ IF Len(taskQueue) > 0 /\ ~elapsed
     THEN Commit(Cur) /\ shutdownPc' = "polling"
     ELSE Commit(shutdownDrain(Cur)) /\ shutdownPc' = "terminating"
  /\ UNCHANGED <<maxWorkers, minWorkers, nextTaskId>>

\* The 100 ms poll wakes up and the while condition is evaluated again.
ShutdownPoll(elapsed) ==
  /\ shutdownPc = "polling"
  /\ IF Len(taskQueue) > 0 /\ ~elapsed
     THEN Commit(Cur) /\ shutdownPc' = "polling"
     ELSE Commit(shutdownDrain(Cur)) /\ shutdownPc' = "terminating"
  /\ UNCHANGED <<maxWorkers, minWorkers, isShuttingDown, nextTaskId>>

\* Promise.all(terminatePromises) is fulfilled: this.workers.clear(), return.
ShutdownReturn ==
  /\ shutdownPc = "terminating"
  /\ Commit([Cur EXCEPT !.workers = <<>>])
  /\ shutdownPc' = "returned"
  /\ UNCHANGED <<maxWorkers, minWorkers, isShuttingDown, nextTaskId>>

\* ------------------------------------------------------------------ Next
\* What happens to the pool other than a caller's execute().
Events ==
  \/ \E w \in WorkerIds, t \in TaskIds : \E result \in TaskResults(t) : WorkerMessage(w, result)
  \/ \E w \in WorkerIds : WorkerError(w)
  \/ \E w \in WorkerIds : WorkerExit(w)
  \/ \E tm \in timers : TimerFires(tm[1], tm[2])
  \/ \E expired \in SUBSET Range(workers) : IdleSweep(expired)
  \/ \E elapsed \in BOOLEAN : ShutdownCall(elapsed)
  \/ \E elapsed \in BOOLEAN : ShutdownPoll(elapsed)
  \/ ShutdownReturn

\* Callers that never pass options.priority, on every pool the constructor builds.
Next ==
  \/ Execute(NoPriority)
  \/ Events

Spec == Init /\ [][Next]_vars

\* Callers that pass any priority, on the pools with minWorkers = 1.
InitPriority == Init /\ minWorkers = 1

NextPriority ==
  \/ \E prio \in Priorities : Execute(prio)
  \/ Events

SpecPriority == InitPriority /\ [][NextPriority]_vars

\* What the runtime is bound to do sooner or later: fire a timer that was set,
\* let a unit answer a task posted to it (unless the unit dies first), emit the
\* exit event of a terminated unit, let the shutdown deadline pass and fulfil
\* the terminate() promises.  Callers, uncaught errors, exits of running units
\* and the outcome of an idle sweep are under no obligation.
TimerDue(t, w) == TimerFires(t, w)
AnswerDue(w, t) == \E result \in TaskResults(t) : WorkerMessage(w, result)
ExitDue(w) == unit[w].status = "terminated" /\ WorkerExit(w)
DeadlineDue == ShutdownPoll(TRUE)

Fairness ==
  /\ \A t \in TaskIds, w \in WorkerIds : WF_vars(TimerDue(t, w))
  /\ \A w \in WorkerIds, t \in TaskIds : WF_vars(AnswerDue(w, t))
  /\ \A w \in WorkerIds : WF_vars(ExitDue(w))
  /\ WF_vars(DeadlineDue)
  /\ WF_vars(ShutdownReturn)

\* Two execute() calls, then whatever the runtime does, under those obligations.
NextFair ==
  \/ nextTaskId < MaxFairTasks /\ Execute(NoPriority)
  \/ Events

FairSpec == Init /\ [][NextFair]_vars /\ Fairness

\* The same pools and callers, with every timer followed until it fires.
InitStale == InitPool /\ stale = {}

NextStale ==
  \/ Next
  \/ \E t \in TaskIds, w \in WorkerIds : StaleTimerFires(t, w)

SpecStale == InitStale /\ [][NextStale]_vars

\* The interval of the constructor keeps firing, and a worker nothing touches
\* is older than idleTimeout at some firing: the sweep that finds every live
\* worker expired.
SweepDue == IdleSweep(Range(workers))

FairSweepSpec == Init /\ [][NextFair]_vars /\ Fairness /\ WF_vars(SweepDue)

\* One worker script on its own: the pool posts it task messages of any type
\* and data; its listener runs and every handleTask call comes to its end.
InitWorker == Init /\ maxWorkers = 1 /\ minWorkers = 1

AllMessages == UNION {TaskMessages(t) : t \in TaskIds}

NextWorker ==
  \/ \E message \in AllMessages : PostToWorker(message)
  \/ OnMessage
  \/ \E n \in 1..MaxMessages : PostResult(n)

SpecWorker ==
  /\ InitWorker /\ [][NextWorker]_vars
  /\ WF_vars(OnMessage)
  /\ \A n \in 1..MaxMessages : WF_vars(PostResult(n))

\* ------------------------------------------ the constructor, seen as a call
\* The calls followed: maxWorkers and minWorkers each absent (0) or given.
CtorCalls ==
  [options : [maxWorkers : 0..MaxCtorWorkers, minWorkers : 0..MaxOptWorkers],
   cpus : 1..MaxCtorCpus, pc : {"called"}]

\* The constructor has been called and has assigned nothing yet.
InitCtor ==
  /\ ctor \in CtorCalls
  /\ maxWorkers = 0
  /\ minWorkers = 0
  /\ workers = <<>>
  /\ info = [w \in WorkerIds |-> NewInfo]
  /\ unit = [w \in WorkerIds |-> NoUnit]
  /\ taskQueue = <<>>
  /\ priority = [t \in TaskIds |-> <<>>]
  /\ isShuttingDown = FALSE
  /\ timers = {}
  /\ outcome = [t \in TaskIds |-> <<>>]
  /\ nextTaskId = 0
  /\ shutdownPc = "idle"
  /\ dispatched = <<>>
  /\ port = NoPort
  /\ stale = NoStale

\* Lines 46-55: assign maxWorkers and minWorkers, spawn minWorkers workers.
Construct ==
  /\ ctor.pc = "called"
  /\ maxWorkers' = CtorMaxWorkers(ctor.options, ctor.cpus)
  /\ minWorkers' = CtorMinWorkers(ctor.options, ctor.cpus)
  /\ LET p == SpawnTimes([workers |-> <<>>,
                          info |-> [w \in WorkerIds |-> NewInfo],
                          unit |-> [w \in WorkerIds |-> NoUnit],
                          timers |-> {}, ok |-> TRUE, stale |-> {}],
                         CtorMinWorkers(ctor.options, ctor.cpus))
     IN /\ p.ok
        /\ workers' = p.workers
        /\ info' = p.info
        /\ unit' = p.unit
  /\ ctor' = [ctor EXCEPT !.pc = "constructed"]
  /\ UNCHANGED <<taskQueue, priority, isShuttingDown, timers, outcome, nextTaskId,
                 shutdownPc, dispatched, port, stale>>

NextCtor == Construct

SpecCtor == InitCtor /\ [][NextCtor]_vars

\* ------------------------------------------------- what the claims speak of
Settled(t) == outcome[t] # <<>>
InQueue(t) == t \in Range(taskQueue)
Assigned(t) == \E w \in Range(workers) : info[w].currentTask = t
Waiting(t) == InQueue(t) /\ ~Assigned(t)

\* getStats()
totalWorkers == Len(workers)
busyWorkers == Cardinality({w \in Range(workers) : info[w].busy})

\* totalErrors of getStats(): the sum of info.errors over this.workers.values().
RECURSIVE SumErrors(_, _)
SumErrors(inf, ids) ==
  IF ids = <<>> THEN 0 ELSE inf[Head(ids)].errors + SumErrors(inf, Tail(ids))

totalErrors == SumErrors(info, workers)

\* ------------------------------------------------------------------ claims

\* C1: the future of every execute() call is settled at most once: never both
\* resolved and rejected, never resolved or rejected a second time.
C1_SettledAtMostOnce == \A t \in TaskIds : Len(outcome[t]) <= 1

\* A task timed out, its unit's late answer was taken, another task resolved,
\* and shutdown() has run to its end.
C1_Witness ==
  /\ shutdownPc = "returned"
  /\ \E t1, t2 \in TaskIds :
       /\ outcome[t1] = <<TaskTimeout>>
       /\ outcome[t2] = <<Resolved>>
       /\ \A w \in WorkerIds : unit[w].inbox[t1] = 0

\* C2 (as claimed): every task execute() accepted is eventually settled, given
\* only that timers fire and every unit answers, errors or exits, with no
\* further execute() and no shutdown() required.
C2_EveryTaskSettles == \A t \in TaskIds : InQueue(t) ~> Settled(t)

\* C3 (as claimed): busyWorkers <= totalWorkers <= maxWorkers in every state of
\* every pool the constructor builds.
C3_WorkerBounds == busyWorkers <= totalWorkers /\ totalWorkers <= maxWorkers

\* C4: while the pool is not shutting down, the live set holds at least
\* minWorkers workers after every step.
C4_AtLeastMinWorkers == ~isShuttingDown => totalWorkers >= minWorkers

\* The only worker of a pool with minWorkers = maxWorkers = 1 raised an error,
\* was terminated, and a replacement is live.
C4_Witness ==
  /\ minWorkers = 1 /\ maxWorkers = 1 /\ ~isShuttingDown
  /\ totalWorkers = 1
  /\ \E w \in WorkerIds : unit[w].status = "terminated" /\ w \notin Range(workers)

\* C7: once shutdown() has been called, an execute() call is rejected with
\* "Worker pool is shutting down" and changes nothing of the pool: nothing is
\* enqueued, no worker is spawned, nothing is posted to a worker.
C7_ExecuteRejectedAfterShutdown ==
  [][(isShuttingDown /\ nextTaskId' # nextTaskId) =>
       /\ outcome'[nextTaskId'] = <<PoolIsShuttingDown>>
       /\ \A t \in TaskIds \ {nextTaskId'} : outcome'[t] = outcome[t]
       /\ UNCHANGED <<taskQueue, workers, info, unit, timers, priority>>
       /\ dispatched' = <<>>]_vars

\* The priority a task counts with: its own, 0 when none was given.
CountsAs(t) == IF priority[t] = NoPriority THEN 0 ELSE priority[t][1]

\* C5: after a step that assigned tasks to workers, no task left waiting
\* unassigned in the queue has a strictly higher priority than a task the step
\* assigned, and one pass assigns in descending priority; a task submitted
\* without a priority counts as priority 0.
C5_HigherPriorityFirst ==
  /\ \A i \in 1..Len(dispatched) : \A u \in TaskIds :
        Waiting(u) => CountsAs(u) <= CountsAs(dispatched[i][1])
  /\ \A i, j \in 1..Len(dispatched) :
        i < j => CountsAs(dispatched[i][1]) >= CountsAs(dispatched[j][1])

\* A (no priority) was submitted before B (priority 5) while the pool was busy;
\* the last step assigned B alone and A still waits.
C5_Witness ==
  \E a, b \in TaskIds :
    /\ a < b
    /\ priority[a] = NoPriority /\ priority[b] = <<5>>
    /\ Waiting(a)
    /\ Len(dispatched) = 1 /\ dispatched[1][1] = b

\* C6: after a step that assigned a task, no task submitted earlier with the
\* same priority is left waiting unassigned in the queue.
C6_FifoWithinPriority ==
  \A i \in 1..Len(dispatched) : \A u \in TaskIds :
    (Waiting(u) /\ CountsAs(u) = CountsAs(dispatched[i][1])) => u > dispatched[i][1]

\* Of two waiting tasks of equal priority the earlier one was assigned by the
\* last step, after a task had timed out, and the later one still waits.
C6_Witness ==
  \E a, b \in TaskIds :
    /\ a < b
    /\ priority[a] = priority[b]
    /\ Len(dispatched) = 1 /\ dispatched[1][1] = a
    /\ Waiting(b)
    /\ \E c \in TaskIds : outcome[c] = <<TaskTimeout>>

\* An execute() call made after shutdown() began was rejected.
C7_Witness ==
  /\ isShuttingDown
  /\ \E t \in TaskIds : outcome[t] = <<PoolIsShuttingDown>>

\* C8 (as claimed): when the timeout timer of a dispatched task fires and the
\* task has not been settled by a completion message, the task leaves the
\* queue, its future is rejected with "Task timeout", and the worker it was
\* dispatched to is idle with no current task and is not removed by the timer.
C8_TimeoutRejectsAndFreesWorker ==
  [][\A tm \in timers :
       (InQueue(tm[1]) /\ TimerFires(tm[1], tm[2])) =>
          /\ tm[1] \notin Range(taskQueue')
          /\ outcome'[tm[1]] = <<TaskTimeout>>
          /\ info'[tm[2]] = NewInfo
          /\ (tm[2] \in Range(workers) => tm[2] \in Range(workers'))]_vars

\* C9 (as claimed): when a running unit raises an error event or exits while a
\* queued task is its worker's current task, that task's future is rejected
\* with the worker's error and the worker leaves the live set.
C9_FailureRejectsCurrentTask ==
  [][\A w \in WorkerIds :
       (/\ unit[w].status = "running"
        /\ w \in Range(workers)
        /\ info[w].currentTask # 0
        /\ InQueue(info[w].currentTask)
        /\ (WorkerError(w) \/ WorkerExit(w))) =>
          /\ outcome'[info[w].currentTask] = <<WorkerCrash>>
          /\ w \notin Range(workers')]_vars

\* C10: shutdown() returns; when it has returned the queue is empty and every
\* execute() call made so far has a settled future; and the step of shutdown
\* that ends the wait rejects every task still in the queue with
\* "Worker pool shutdown".
C10_ShutdownReturnsDrained ==
  /\ (shutdownPc # "idle") ~> (shutdownPc = "returned")
  /\ [](shutdownPc = "returned" =>
          /\ taskQueue = <<>>
          /\ \A t \in 1..nextTaskId : Len(outcome[t]) = 1)
  /\ [][(shutdownPc \in {"idle", "polling"} /\ shutdownPc' = "terminating") =>
          \A t \in Range(taskQueue) :
             outcome'[t] = <<PoolShutdown>> /\ PoolShutdown \in PoolShuttingDown]_vars

\* shutdown() has returned after its deadline cut the wait short: one task was
\* rejected by it, another had completed while it waited.
C10_Witness ==
  /\ shutdownPc = "returned"
  /\ \E t1, t2 \in TaskIds :
       /\ outcome[t1] = <<PoolShutdown>>
       /\ outcome[t2] = <<Resolved>>

\* C12: when the pool holds more than minWorkers workers and every task has
\* completed, then unless a further task is submitted, which puts it in the
\* queue (or shutdown() is called),
\* the idle sweep eventually leaves exactly minWorkers workers; and no sweep
\* takes the live set below minWorkers: a sweep of a larger pool leaves at
\* least minWorkers, a sweep of any other pool removes nothing.
C12_IdleShrinkToMin ==
  /\ (taskQueue = <<>> /\ totalWorkers > minWorkers)
       ~> (totalWorkers = minWorkers \/ taskQueue # <<>> \/ isShuttingDown)
  /\ [][\A expired \in SUBSET Range(workers) :
          IdleSweep(expired) =>
            IF totalWorkers > minWorkers
            THEN Len(workers') >= minWorkers
            ELSE workers' = workers]_vars

\* A pool with minWorkers = 1 grew to two workers for two tasks, both tasks
\* completed, and a sweep terminated one worker: one is live.
C12_Witness ==
  /\ minWorkers = 1 /\ maxWorkers = 2 /\ ~isShuttingDown
  /\ nextTaskId = 2 /\ outcome[1] = <<Resolved>> /\ outcome[2] = <<Resolved>>
  /\ totalWorkers = 1
  /\ \E w \in WorkerIds : unit[w].status = "terminated" /\ w \notin Range(workers)

\* No message for task t is posted to any unit by the step.
NotPosted(t) == \A w \in WorkerIds : unit'[w].inbox[t] <= unit[w].inbox[t]

\* The error messages a unit can report.
ReportedErrors == {TaskFailed} \cup {UnknownTaskType(type) : type \in TaskTypes \ KnownTypes}

\* C13 (as claimed): when a live worker's result for its current task says success: false,
\* the step rejects the task's future with the reported error message and
\* takes the task out of the queue; the worker stays in the live set with its
\* unit running, idle or already holding another task this step gave it; and
\* neither this step nor any later one posts the task to a unit again.
C13_FailureReportRejectsOnly ==
  /\ [][\A w \in WorkerIds, t \in TaskIds : \A result \in TaskResults(t) :
          (/\ ~result.success
           /\ w \in Range(workers)
           /\ info[w].currentTask = t
           /\ WorkerMessage(w, result)) =>
             /\ outcome'[t] = <<result.error>>
             /\ result.error \in ReportedErrors
             /\ t \notin Range(taskQueue')
             /\ w \in Range(workers')
             /\ unit'[w].status = "running"
             /\ \/ info'[w] = NewInfo
                \/ /\ info'[w].busy
                   /\ info'[w].currentTask # t
                   /\ <<info'[w].currentTask, w>> \in Range(dispatched')
             /\ NotPosted(t)]_vars
  /\ [][\A t \in TaskIds :
          (Settled(t) /\ outcome[t][1] \in ReportedErrors) => NotPosted(t)]_vars

\* The n-th message the script received has been answered.
Answered(n) == Len(port.posted[n]) >= 1

\* A well-formed response: success with data, or failure with an error message.
WellFormed(result) ==
  \/ result.success /\ result.data # Undefined
  \/ ~result.success /\ result.error # Undefined

\* C14: for every task message a worker script receives it posts exactly one
\* result: never more than one, eventually one; the result carries the
\* message's taskId and is success: true with data or success: false with an
\* error message; for a type no case names it is success: false with the
\* error "Unknown task type: <type>".
C14_OneResponsePerMessage ==
  /\ [](\A n \in 1..MaxMessages :
         /\ Len(port.posted[n]) <= 1
         /\ Answered(n) =>
              /\ n <= Len(port.received)
              /\ port.posted[n][1].taskId = port.received[n].taskId
              /\ WellFormed(port.posted[n][1])
              /\ port.received[n].type \notin KnownTypes =>
                   /\ ~port.posted[n][1].success
                   /\ port.posted[n][1].error = UnknownTaskType(port.received[n].type))
  /\ \A n \in 1..MaxMessages : (Len(port.received) >= n) ~> Answered(n)

\* The script answered a message of an unknown type with a failure and a
\* message a handler accepted with success, both with the taskId they came with.
C14_Witness ==
  /\ Len(port.received) = 2 /\ port.running = {}
  /\ Answered(1) /\ Answered(2)
  /\ port.received[1].type = "nosuch" /\ ~port.posted[1][1].success
  /\ port.received[2].type = "hash" /\ port.posted[2][1].success
  /\ port.received[1].taskId = 2 /\ port.posted[1][1].taskId = 2

\* Task t is known to have been posted to a worker: a timeout timer set at its
\* dispatch is pending, a unit has its message unanswered, or a WorkerInfo
\* holds it as currentTask.  Only the dispatch of processQueue sets any of these.
PostedBefore(t) ==
  \/ \E tm \in timers : tm[1] = t
  \/ \E w \in WorkerIds : unit[w].inbox[t] > 0 \/ info[w].currentTask = t

\* C15: in a step that leaves the pool not shutting down, only a task that
\* was posted to a worker before gets its future settled; an execute() call
\* leaves its task in the queue with its future open; and the live set grows
\* only up to maxWorkers.
C15_WaitingTasksStayQueued ==
  [][~isShuttingDown' =>
       /\ \A t \in TaskIds : outcome'[t] # outcome[t] => PostedBefore(t)
       /\ nextTaskId' # nextTaskId =>
             /\ nextTaskId' \in Range(taskQueue')
             /\ outcome'[nextTaskId'] = <<>>
       /\ Len(workers') > Len(workers) => Len(workers') <= maxWorkers]_vars

\* A pool at maxWorkers = 1 holds two tasks that were never posted, after the
\* task its worker had timed out.
C15_Witness ==
  /\ ~isShuttingDown
  /\ maxWorkers = 1 /\ totalWorkers = 1
  /\ outcome[1] = <<TaskTimeout>>
  /\ Waiting(2) /\ ~PostedBefore(2) /\ outcome[2] = <<>>
  /\ Waiting(3) /\ ~PostedBefore(3) /\ outcome[3] = <<>>

\* The step of shutdown() that ends its wait and runs lines 305-315.
DrainStep == shutdownPc \in {"idle", "polling"} /\ shutdownPc' = "terminating"

\* C16 (as claimed): the step of shutdown() that ends the wait leaves the
\* future of a task that is in flight on a worker as it was.
C16_InFlightNotRejected ==
  [][DrainStep => \A t \in Range(taskQueue) : Assigned(t) => outcome'[t] = outcome[t]]_vars

\* C16 (amended): the step of shutdown() that ends the wait rejects every
\* task still in taskQueue with "Worker pool shutdown", the tasks in flight
\* on a worker as well as the unassigned ones, changes no other future,
\* empties the queue and stops every live worker; after it no future of an
\* execute() call made before changes any more.
C16_InFlightRejectedToo ==
  /\ [][DrainStep =>
          /\ \A t \in Range(taskQueue) : outcome'[t] = Append(outcome[t], PoolShutdown)
          /\ \A t \in TaskIds \ Range(taskQueue) : outcome'[t] = outcome[t]
          /\ taskQueue' = <<>>
          /\ \A w \in Range(workers) : unit'[w].status = "terminated"]_vars
  /\ [][(shutdownPc = "terminating" \/ shutdownPc = "returned") =>
          \A t \in 1..nextTaskId : outcome'[t] = outcome[t]]_vars

\* shutdown() has rejected a task that was in flight and one that was
\* waiting unassigned; the worker of the first was stopped with it.
C16_Witness ==
  /\ shutdownPc = "terminating"
  /\ \E t1, t2 \in TaskIds, w \in Range(workers) :
       /\ t1 # t2
       /\ info[w].currentTask = t1 /\ unit[w].status = "terminated"
       /\ \A w2 \in Range(workers) : info[w2].currentTask # t2
       /\ outcome[t1] = <<PoolShutdown>> /\ outcome[t2] = <<PoolShutdown>>
       /\ <<t1, w>> \in timers /\ ~PostedBefore(t2)

\* C17 (as claimed): while shutdown() waits, a step in which a live worker
\* becomes idle while a task is queued and unassigned dispatches a task.
C17_BacklogDispatchedDuringShutdown ==
  [][(/\ shutdownPc = "polling" /\ shutdownPc' = "polling"
      /\ \E t \in TaskIds : Waiting(t)
      /\ \E w \in Range(workers) \cap Range(workers') : info[w].busy /\ ~info'[w].busy)
       => dispatched' # <<>>]_vars

\* C18 (as claimed): a step posts a task to a worker only if the task was
\* not posted to a worker before, and posts no task twice.
C18_PostedAtMostOnce ==
  [][\A i \in 1..Len(dispatched') :
       /\ ~PostedBefore(dispatched'[i][1])
       /\ \A j \in 1..Len(dispatched') : dispatched'[j][1] = dispatched'[i][1] => j = i]_vars

\* C19 (as claimed): a pool constructed without options.minWorkers has
\* minWorkers = max(1, floor(maxWorkers / 2)) for the maxWorkers it ended up
\* with, supplied or defaulted.
C19_DefaultMinFromMaxWorkers ==
  (ctor.pc = "constructed" /\ ctor.options.minWorkers = 0)
    => minWorkers = Max(1, maxWorkers \div 2)

\* C20 (as claimed): when a live worker's result for its current task says
\* success: true, the step resolves the task's future with the data and takes
\* the task out of the queue, the worker stays live, and if a task was queued
\* and unassigned the step assigns one: the first task it posts has a priority
\* no lower than any task left unassigned, and goes to a worker that was idle,
\* was just spawned, or is the one that reported.
C20_CompletionResolvesAndDispatches ==
  [][\A w \in WorkerIds, t \in TaskIds : \A result \in TaskResults(t) :
       (/\ result.success
        /\ w \in Range(workers)
        /\ info[w].currentTask = t
        /\ WorkerMessage(w, result)) =>
          /\ outcome'[t] = <<result.data>>
          /\ t \notin Range(taskQueue')
          /\ w \in Range(workers')
          /\ (\E u \in TaskIds : Waiting(u)) =>
                /\ dispatched' # <<>>
                /\ \A u \in TaskIds :
                      (u \in Range(taskQueue') /\ \A w2 \in Range(workers') : info'[w2].currentTask # u)
                        => CountsAs(u) <= CountsAs(dispatched'[1][1])
                /\ LET to == dispatched'[1][2]
                   IN to = w \/ to \notin Range(workers) \/ ~info[to].busy]_vars

\* A step spawned a worker: a unit that was not running is, or the map holds an
\* id it did not hold.
Spawned ==
  \/ \E w \in WorkerIds : unit'[w].status = "running" /\ unit[w].status # "running"
  \/ ~(Range(workers') \subseteq Range(workers))

\* C11: from the step that calls shutdown() on, no step spawns a worker, and
\* once shutdown() has returned the live worker set is empty in every state.
C11_NoSpawnAfterShutdown ==
  /\ [][isShuttingDown' => ~Spawned]_vars
  /\ [](shutdownPc = "returned" => workers = <<>>)

\* shutdown() is waiting for a queue that is not empty while the live set is
\* below minWorkers: a worker was lost and neither respawned nor replaced by
\* dispatch.
C11_Witness ==
  /\ shutdownPc = "polling"
  /\ taskQueue # <<>>
  /\ totalWorkers < minWorkers

\* C21 (as claimed): while the pool is not shutting down, the step in which a
\* task is rejected with "Task timeout" and its live worker is reset to idle
\* posts a task to a worker if a task was waiting unassigned in the queue.
C21_TimeoutDispatchesWaiting ==
  [][\A t \in TaskIds, w \in Range(workers) :
       (/\ ~isShuttingDown
        /\ info[w].currentTask = t
        /\ outcome[t] = <<>> /\ outcome'[t] = <<TaskTimeout>>
        /\ w \in Range(workers') /\ ~info'[w].busy
        /\ \E u \in TaskIds : Waiting(u))
         => dispatched' # <<>>]_vars

\* C22 (as claimed): while the pool is not shutting down, the step in which
\* the running unit of a live worker raises an error or exits removes the
\* worker from the live set and, if a task was waiting unassigned in the
\* queue, posts a task to a worker.
C22_FailureDispatchesWaiting ==
  [][\A w \in Range(workers) :
       (/\ ~isShuttingDown
        /\ unit[w].status = "running"
        /\ \E u \in TaskIds : Waiting(u)
        /\ (WorkerError(w) \/ WorkerExit(w)))
         => (w \notin Range(workers') /\ dispatched' # <<>>)]_vars

\* C23: the step in which the running unit of a live worker raises an error
\* or exits settles no task other than that worker's current task and takes
\* no other task out of the queue; every other live worker stays live, and
\* stays as it was if it was busy; a worker whose busy flag or current task
\* changes was given a task by this step, and every task the step posts was
\* waiting unassigned before.
C23_CrashTouchesOnlyItsTask ==
  [][\A w \in Range(workers) :
       (/\ unit[w].status = "running"
        /\ unit'[w].status # "running"
        /\ (WorkerError(w) \/ WorkerExit(w))) =>
          /\ \A t \in TaskIds \ {info[w].currentTask} :
               /\ outcome'[t] = outcome[t]
               /\ InQueue(t) => t \in Range(taskQueue')
          /\ \A w2 \in Range(workers) \ {w} :
               /\ w2 \in Range(workers')
               /\ info[w2].busy => info'[w2] = info[w2]
               /\ info'[w2] # info[w2] => <<info'[w2].currentTask, w2>> \in Range(dispatched')
          /\ \A i \in 1..Len(dispatched') : Waiting(dispatched'[i][1])]_vars

\* Of three tasks on a pool of two workers the first was rejected by its
\* worker's crash, the second is still in flight on the other worker, and the
\* third, which was waiting, was posted by the last step.
C23_Witness ==
  /\ maxWorkers = 2 /\ nextTaskId = 3 /\ ~isShuttingDown
  /\ outcome[1] = <<WorkerCrash>>
  /\ outcome[2] = <<>> /\ Assigned(2)
  /\ Len(dispatched) = 1 /\ dispatched[1][1] = 3

\* C24 (as claimed): in every state each execution unit holds at most one
\* task message it has not answered yet.
C24_OneTaskPerUnit ==
  \A w \in WorkerIds :
    /\ Cardinality({t \in TaskIds : unit[w].inbox[t] > 0}) <= 1
    /\ \A t \in TaskIds : unit[w].inbox[t] <= 1

\* C25: in every state a live worker is busy exactly when it has a current
\* task, and no two live workers have the same current task.
C25_BusyIffCurrentTask ==
  /\ \A w \in Range(workers) : info[w].busy <=> info[w].currentTask # 0
  /\ \A w1, w2 \in Range(workers) :
       (w1 # w2 /\ info[w1].currentTask # 0) => info[w1].currentTask # info[w2].currentTask

\* Two live workers are busy with different tasks; the task of one of them
\* was posted before to a worker that has left the live set, whose timer is
\* still pending.
C25_Witness ==
  \E w1, w2 \in Range(workers), w0 \in WorkerIds \ Range(workers) :
    /\ w1 # w2
    /\ info[w1].busy /\ info[w2].busy
    /\ info[w1].currentTask # info[w2].currentTask
    /\ <<info[w1].currentTask, w0>> \in timers
    /\ <<info[w1].currentTask, w1>> \in timers

\* C26 (as claimed): the step in which the running unit of a live worker
\* raises an error leaves totalErrors of getStats() at least 1 higher than it
\* was before.
C26_CrashCountedInStats ==
  [][\A w \in Range(workers) :
       (/\ unit[w].status = "running"
        /\ unit'[w].status = "terminated"
        /\ WorkerError(w))
         => SumErrors(info', workers') >= totalErrors + 1]_vars

\* C27 (as claimed): the step that takes a unit's answer for a task already
\* rejected with "Task timeout" changes no future and leaves the busy flag
\* and current task of every live worker as they were.
C27_LateAnswerDiscarded ==
  [][\A w \in WorkerIds, t \in TaskIds :
       (/\ outcome[t] = <<TaskTimeout>>
        /\ unit[w].inbox[t] > 0
        /\ unit'[w].inbox[t] < unit[w].inbox[t]
        /\ AnswerDue(w, t))
         => /\ outcome' = outcome
            /\ \A w2 \in Range(workers) :
                 /\ info'[w2].busy = info[w2].busy
                 /\ info'[w2].currentTask = info[w2].currentTask]_vars

\* C28 (as claimed): in every state of a pool that is not shutting down, no
\* task waits unassigned in the queue while a live worker is idle or the live
\* set is smaller than maxWorkers.
C28_WorkConserving ==
  (~isShuttingDown /\ \E t \in TaskIds : Waiting(t)) =>
     /\ \A w \in Range(workers) : info[w].busy
     /\ totalWorkers >= maxWorkers

\* queuedTasks of getStats()
queuedTasks == Len(taskQueue)

\* C29: in every state the queue holds exactly the tasks of the execute()
\* calls made so far whose future is not settled, each once, whether they
\* wait or are in flight, so queuedTasks is the number of unsettled tasks.
C29_QueueIsUnsettledTasks ==
  /\ \A t \in TaskIds : InQueue(t) <=> (t <= nextTaskId /\ ~Settled(t))
  /\ queuedTasks = Cardinality({t \in 1..nextTaskId : ~Settled(t)})

\* Three execute() calls were made: one task was rejected by its timeout, one
\* is in flight on a worker, one waits unassigned; two are queued.
C29_Witness ==
  /\ nextTaskId = 3 /\ queuedTasks = 2
  /\ \E t1, t2, t3 \in TaskIds :
       /\ outcome[t1] = <<TaskTimeout>>
       /\ InQueue(t2) /\ Assigned(t2)
       /\ Waiting(t3)

\* C30: a timer that fires after its task has settled settles no future, and
\* leaves busy and currentTask of every live worker that holds another task as
\* they were.  A timer is never cleared: it stays until it fires, in `timers`
\* while its worker holds its task, in `stale` afterwards.
C30_StaleTimerHarmless ==
  [][\A t \in TaskIds, w \in WorkerIds :
       (/\ Settled(t)
        /\ \/ /\ <<t, w>> \in stale
              /\ <<t, w>> \notin stale'
              /\ w \in Range(workers')
           \/ /\ <<t, w>> \in timers
              /\ TimerFires(t, w))
         => /\ outcome' = outcome
            /\ \A w2 \in Range(workers) :
                 (info[w2].currentTask # 0 /\ info[w2].currentTask # t)
                   => /\ w2 \in Range(workers')
                      /\ info'[w2].busy = info[w2].busy
                      /\ info'[w2].currentTask = info[w2].currentTask]_vars

\* The only worker of a pool answered task 1 and was given task 2; the timer
\* of task 1 has fired since (no timer of task 1 is left), task 2 is still
\* running on the worker and its own timer is still to fire.
C30_Witness ==
  /\ stale = {}
  /\ maxWorkers = 1 /\ workers = <<1>> /\ nextTaskId = 2
  /\ Len(outcome[1]) = 1 /\ outcome[1] # <<TaskTimeout>> /\ outcome[1] # <<WorkerCrash>>
  /\ outcome[2] = <<>>
  /\ info[1].busy /\ info[1].currentTask = 2
  /\ unit[1].inbox[2] = 1
  /\ timers = {<<2, 1>>}
====
